---- MODULE Spec2Model ----
(***************************************************************************)
(* Model of Zonal_stats.calc_stats (src/src/extrapolation_preprocessing.py) *)
(* and of its helper get_bins: the per-year sweep of the population raster  *)
(* in native blocks, the masking of the population by the urban raster, the *)
(* two per-tile pipelines (binned population sums, urban pixel counts), the *)
(* running lists list_df and stats, and the per-year table written to csv.  *)
(*                                                                          *)
(* Rasters are functions from pixels <<col, row>> to integers.  Real-valued *)
(* population counts are modelled by integers.                              *)
(***************************************************************************)
EXTENDS Integers, Sequences, FiniteSets, TLC

VARIABLES
    num_cols,          \* pop_band.XSize
    num_rows,          \* pop_band.YSize
    pop_block_xsize,   \* pop_band.GetBlockSize()[0]
    pop_block_ysize,   \* pop_band.GetBlockSize()[1]
    adm_nd,            \* adm_band.GetNoDataValue()
    pop_nd,            \* pop_band.GetNoDataValue()
    adm_band,          \* the admin-zone raster, shared by all years
    urban_band,        \* year -> urban raster of that year
    pop_band,          \* year -> population raster of that year
    yi,                \* position of the year loop in Years
    pc,                \* "open", "sweep", "write", "done", or the exception raised
    x,                 \* column offset of the next tile
    y,                 \* row offset of the next tile
    tiles,             \* the tiles <<x, y, cols, rows>> read so far in this year's sweep
    list_df,           \* list of <<GID, BSPOP>> rows appended per tile
    stats,             \* list of <<GID, BSCNT>> rows appended per tile
    csv                \* files written: out_fn -> table

vars == <<num_cols, num_rows, pop_block_xsize, pop_block_ysize, adm_nd, pop_nd,
          adm_band, urban_band, pop_band, yi, pc, x, y, tiles, list_df, stats, csv>>

inputs == <<num_cols, num_rows, pop_block_xsize, pop_block_ysize, adm_nd, pop_nd,
            adm_band, urban_band, pop_band>>

-----------------------------------------------------------------------------
(* Configuration of the year loop *)

Years == <<2000, 2012, 2014>>

YearSet == {Years[i] : i \in 1..Len(Years)}

\* GetNoDataValue() returns None when the band has no nodata value; None equals
\* no pixel value.
None == -99

-----------------------------------------------------------------------------
(* Generic helpers *)

Min(S) == CHOOSE m \in S : \A n \in S : m <= n

Max(S) == CHOOSE m \in S : \A n \in S : n <= m

RECURSIVE SortedSeq(_)
SortedSeq(S) ==
    IF S = {} THEN << >>
    ELSE LET m == Min(S) IN <<m>> \o SortedSeq(S \ {m})

RECURSIVE SumOver(_, _)
SumOver(f, S) ==
    IF S = {} THEN 0
    ELSE LET p == CHOOSE q \in S : TRUE IN f[p] + SumOver(f, S \ {p})

RECURSIVE SumSeq(_)
SumSeq(s) == IF s = << >> THEN 0 ELSE Head(s) + SumSeq(Tail(s))

Pixels == (0..(num_cols - 1)) \X (0..(num_rows - 1))

-----------------------------------------------------------------------------
(* The block loop: lines 224-234 *)

\* TileCols without the block width: every tile runs to the raster's edge
TileColsToEdge(x0) == num_cols - x0

TileCols(x0) ==
    IF x0 + pop_block_xsize < num_cols THEN pop_block_xsize ELSE num_cols - x0

TileRows(y0) ==
    IF y0 + pop_block_ysize < num_rows THEN pop_block_ysize ELSE num_rows - y0

\* band.ReadAsArray(x, y, cols, rows): the pixels of the window
Window(x0, y0, cols, rows) == (x0..(x0 + cols - 1)) \X (y0..(y0 + rows - 1))

-----------------------------------------------------------------------------
(* get_bins: lines 163-175.  np.empty(1,) is an uninitialised value: `empty'  *)
(* is whatever it happens to hold.                                           *)

Unique(data) == {data[p] : p \in DOMAIN data}

get_bins(data, nodata, empty) ==
    LET bins  == Unique(data) \ {nodata}
        bins2 == IF bins = {} THEN {empty} ELSE bins
    IN  SortedSeq(bins2) \o <<Max(bins2) + 1>>

IsEmptyBins(data, nodata) == Unique(data) \ {nodata} = {}

-----------------------------------------------------------------------------
(* scipy.stats.binned_statistic_2d(adm_data, pop_data, pop_data, 'sum',      *)
(* [adm_bins, pop_bins]): line 248.  np.digitize places a value in the bin   *)
(* whose left edge is the last edge <= value; a value equal to the rightmost *)
(* edge is shifted into the last bin; values below the first edge or above   *)
(* the last are outliers and are dropped.                                    *)

digitize(v, edges) == Cardinality({i \in 1..Len(edges) : edges[i] <= v})

BinNumber(v, edges) ==
    IF v = edges[Len(edges)] THEN digitize(v, edges) - 1 ELSE digitize(v, edges)

binned_statistic_2d(adm_data, pop_data, adm_bins, pop_bins) ==
    [i \in 1..(Len(adm_bins) - 1) |->
        [j \in 1..(Len(pop_bins) - 1) |->
            SumOver(pop_data,
                    {p \in DOMAIN adm_data :
                        /\ BinNumber(adm_data[p], adm_bins) = i
                        /\ BinNumber(pop_data[p], pop_bins) = j})]]

\* lines 249-252: the row labels adm_bins[:-1] joined to the row sums
HistRows(hist, adm_bins) ==
    [i \in 1..(Len(adm_bins) - 1) |-> <<adm_bins[i], SumSeq(hist[i])>>]

-----------------------------------------------------------------------------
(* Masking, line 239, and the urban pixel counter, line 255 *)

\* MaskPop without the mask
MaskPopNone(pop_data, urban_data) == pop_data

MaskPop(pop_data, urban_data) ==
    [p \in DOMAIN pop_data |-> IF urban_data[p] = 0 THEN 0 ELSE pop_data[p]]

\* IsUrban with the test of line 239 (any non-zero mask value)
IsUrbanNonZero(u) == u # 0

IsUrban(u) == u = 1

\* Counter(adm_data_2d[np.where(urban_data == 1)].tolist())
Counter(adm_data, urban_data) ==
    LET keys == {adm_data[p] : p \in {q \in DOMAIN adm_data : IsUrban(urban_data[q])}}
    IN  [k \in keys |->
            Cardinality({p \in DOMAIN adm_data :
                            IsUrban(urban_data[p]) /\ adm_data[p] = k})]

\* lines 258-259: one row per key of the counter (in key order here; the sums
\* of line 267 do not depend on the order of the rows)
CountRows(counts) ==
    LET ks == SortedSeq(DOMAIN counts)
    IN  [i \in 1..Len(ks) |-> <<ks[i], counts[ks[i]]>>]

\* line 263
KeepRow(row) == row[1] > 0

-----------------------------------------------------------------------------
(* Finalisation of a year: lines 266-270 *)

\* DataFrame(rows).set_index('GID').groupby('GID').sum()
GroupSum(rows) ==
    LET gids == {rows[i][1] : i \in 1..Len(rows)}
    IN  [g \in gids |->
            SumOver([i \in 1..Len(rows) |-> rows[i][2]],
                    {i \in 1..Len(rows) : rows[i][1] = g})]

\* CountsIndex without the filter on GID 0
CountsIndexAll(df_counts) == DOMAIN df_counts

\* df_counts.iloc[np.where(df_counts.index != 0)]
CountsIndex(df_counts) == DOMAIN df_counts \ {0}

\* The table is the pair of columns: a GID outside DOMAIN BSPOP (or BSCNT) but in
\* the index holds a null in that column.  Line 269 fills the nulls of BSCNT.
FinalTable(rows_pop, rows_cnt) ==
    LET df        == GroupSum(rows_pop)
        df_counts == GroupSum(rows_cnt)
        index     == DOMAIN df \cup CountsIndex(df_counts)
    IN  [BSPOP |-> df,
         BSCNT |-> [g \in index |-> IF g \in DOMAIN df_counts THEN df_counts[g] ELSE 0]]

TableIndex(t) == DOMAIN t.BSPOP \cup DOMAIN t.BSCNT

\* out_fn without the year: one file name for every year
out_fn_no_year(yr) == 0

\* line 192: the name of the year's output file
out_fn(yr) == yr

-----------------------------------------------------------------------------
(* Actions *)

year == Years[yi]

\* lines 192-221: the rasters of the year are opened, the lists start empty
OpenYear ==
    /\ pc = "open"
    /\ pc' = "sweep"
    /\ x' = 0
    /\ y' = 0
    /\ tiles' = << >>
    /\ list_df' = << >>
    /\ stats' = << >>
    /\ UNCHANGED <<inputs, yi, csv>>

\* An exception nothing catches (main.py, lines 33-38) ends the region's process:
\* its locals are gone, the files written so far stay as they are.
Raise(exception) ==
    /\ pc' = exception
    /\ x' = 0
    /\ y' = 0
    /\ tiles' = << >>
    /\ list_df' = << >>
    /\ stats' = << >>
    /\ UNCHANGED <<inputs, yi, csv>>

\* lines 205-218: gdal.Open returns None for a raster it cannot open, and
\* None.GetRasterBand raises
OpenFail ==
    /\ pc = "open"
    /\ Raise("AttributeError")

\* lines 236-244: ReadAsArray returns None for a window it cannot read, and
\* indexing or flattening None raises
ReadFail ==
    /\ pc = "sweep"
    /\ Raise("TypeError")

\* What np.empty(1,) may hold when it is used: a finite value (Garbage holds a
\* negative one, zero and a positive one), or a non-finite or huge value, with
\* which the bin edges <<v, v + 1>> make binned_statistic_2d raise.
Garbage == {-1, 0, 3}

EmptyValues(data, nodata) == IF IsEmptyBins(data, nodata) THEN Garbage ELSE {0}

\* the loop headers of lines 224 and 229: the next tile, or the end of the sweep
Advance ==
    IF y + pop_block_ysize < num_rows
    THEN /\ y' = y + pop_block_ysize
         /\ x' = x
         /\ pc' = "sweep"
    ELSE /\ y' = 0
         /\ x' = x + pop_block_xsize
         /\ pc' = IF x + pop_block_xsize < num_cols THEN "sweep" ELSE "write"

\* lines 236-245: the three windows of a tile, the population masked
UrbanData(yr, win) == [p \in win |-> urban_band[yr][p]]

PopData(yr, win) == MaskPop([p \in win |-> pop_band[yr][p]], UrbanData(yr, win))

AdmData(win) == [p \in win |-> adm_band[p]]

\* lines 241-264: the rows a tile adds to list_df and to stats, with ea and ep
\* the values np.empty held in get_bins (used only when the bins are empty)
TileResult(yr, win, ea, ep) ==
    LET urban_data == UrbanData(yr, win)
        pop_data   == PopData(yr, win)
        adm_data   == AdmData(win)
        pop_bins   == get_bins(pop_data, pop_nd, ep)
        adm_bins   == get_bins(adm_data, adm_nd, ea)
        hist       == HistRows(binned_statistic_2d(adm_data, pop_data, adm_bins, pop_bins),
                               adm_bins)
        counts     == Counter(adm_data, urban_data)
    IN  [list_df |-> SelectSeq(hist, KeepRow), stats |-> CountRows(counts)]

\* the outcomes of a tile: one per value np.empty may hold
TileResults(yr, win) ==
    {TileResult(yr, win, ea, ep) :
        ea \in EmptyValues(AdmData(win), adm_nd), ep \in EmptyValues(PopData(yr, win), pop_nd)}

\* lines 225-264: one tile
ProcessTile ==
    /\ pc = "sweep"
    /\ LET cols == TileCols(x)
           rows == TileRows(y)
           win  == Window(x, y, cols, rows)
       IN  \/ \E r \in TileResults(year, win) :
                /\ stats' = stats \o r.stats
                /\ list_df' = list_df \o r.list_df
                /\ tiles' = Append(tiles, <<x, y, cols, rows>>)
                /\ Advance
                /\ UNCHANGED <<inputs, yi, csv>>
           \/ /\ \/ IsEmptyBins(AdmData(win), adm_nd)
                 \/ IsEmptyBins(PopData(year, win), pop_nd)
              /\ Raise("ValueError")

\* lines 266-270: the year's table is built and written
WriteYear ==
    /\ pc = "write"
    /\ LET fn == out_fn(year)
           df == FinalTable(list_df, stats)
       IN  csv' = [f \in DOMAIN csv \cup {fn} |-> IF f = fn THEN df ELSE csv[f]]
    /\ yi' = yi + 1
    /\ pc' = IF yi < Len(Years) THEN "open" ELSE "done"
    /\ UNCHANGED <<inputs, x, y, tiles, list_df, stats>>

Next == OpenYear \/ OpenFail \/ ProcessTile \/ ReadFail \/ WriteYear

-----------------------------------------------------------------------------
(* Initial states *)

InitControl ==
    /\ yi = 1
    /\ pc = "open"
    /\ x = 0
    /\ y = 0
    /\ tiles = << >>
    /\ list_df = << >>
    /\ stats = << >>
    /\ csv = << >>

\* Rasters of up to MaxCols x MaxRows and at most MaxPixels pixels, blocks of up
\* to MaxBlock x MaxBlock; the three years read the same urban and population
\* values (SpecYears varies them by year).
MaxBlock == 2
MaxCols == 2
MaxRows == 2
MaxPixels == 4

\* <<admin zone, urban mask, population>> of a pixel
PixelKinds == {<<1, 1, 1>>, <<2, 1, 2>>, <<0, 1, 1>>, <<1, 0, 2>>, <<1, 2, 1>>}

\* <<adm_nd, pop_nd>>: no nodata value, 0 (also the water zone), or a value
\* right above a zone code
Nodata == {<<None, None>>, <<0, 0>>, <<2, None>>, <<None, 0>>}

Init ==
    /\ num_cols \in 1..MaxCols
    /\ num_rows \in 1..MaxRows
    /\ num_cols * num_rows <= MaxPixels
    /\ pop_block_xsize \in 1..MaxBlock
    /\ pop_block_ysize \in 1..MaxBlock
    /\ \E k \in [Pixels -> PixelKinds] :
          /\ adm_band = [p \in Pixels |-> k[p][1]]
          /\ urban_band = [yr \in YearSet |-> [p \in Pixels |-> k[p][2]]]
          /\ pop_band = [yr \in YearSet |-> [p \in Pixels |-> k[p][3]]]
    /\ \E nd \in Nodata : adm_nd = nd[1] /\ pop_nd = nd[2]
    /\ InitControl

Spec == Init /\ [][Next]_vars

-----------------------------------------------------------------------------
(* The block loop alone: rasters of up to TileMaxSize x TileMaxSize pixels of  *)
(* one kind, swept in blocks of up to TileMaxBlock x TileMaxBlock.            *)

TileMaxSize == 4
TileMaxBlock == 5

InitTiles ==
    /\ num_cols \in 1..TileMaxSize
    /\ num_rows \in 1..TileMaxSize
    /\ pop_block_xsize \in 1..TileMaxBlock
    /\ pop_block_ysize \in 1..TileMaxBlock
    /\ adm_nd = None
    /\ pop_nd = 0
    /\ adm_band = [p \in Pixels |-> 1]
    /\ urban_band = [yr \in YearSet |-> [p \in Pixels |-> IF p[1] = 0 THEN 0 ELSE 1]]
    /\ pop_band = [yr \in YearSet |-> [p \in Pixels |-> 1]]
    /\ InitControl

SpecTiles == InitTiles /\ [][Next]_vars

TileWindow(t) == Window(t[1], t[2], t[3], t[4])

\* C1: the tiles the block loop visits partition the raster: every tile has
\* cols >= 1 and rows >= 1 and lies inside the raster, no two tiles share a
\* pixel, and once the sweep is complete every pixel lies in a tile (hence in
\* exactly one), for block sizes that divide, do not divide or exceed the raster.
C1_TilesPartition ==
    /\ \A i \in 1..Len(tiles) :
          /\ tiles[i][3] >= 1
          /\ tiles[i][4] >= 1
          /\ TileWindow(tiles[i]) \subseteq Pixels
    /\ \A i, j \in 1..Len(tiles) :
          i # j => TileWindow(tiles[i]) \cap TileWindow(tiles[j]) = {}
    /\ pc = "write" =>
          \A p \in Pixels : \E i \in 1..Len(tiles) : p \in TileWindow(tiles[i])

\* a completed sweep of several tiles whose last column and last row are clipped
C1_Witness ==
    /\ pc = "write"
    /\ num_cols % pop_block_xsize # 0
    /\ num_rows % pop_block_ysize # 0
    /\ pop_block_xsize < num_cols
    /\ pop_block_ysize < num_rows
    /\ Len(tiles) >= 4

-----------------------------------------------------------------------------
(* The per-year table against the rasters it was computed from *)

Written(yr) == out_fn(yr) \in DOMAIN csv

Table(yr) == csv[out_fn(yr)]

\* the year whose table was written last, while its lists are still in place
LastYear == Years[yi - 1]

JustWritten == yi > 1 /\ pc \in {"open", "done"}

ZonePixels(z) == {p \in Pixels : adm_band[p] = z}

UrbanPixels(yr, z) == {p \in ZonePixels(z) : urban_band[yr][p] = 1}

Gids(rows) == {rows[i][1] : i \in 1..Len(rows)}

\* the running value of a zone in a list of rows (0 for a zone without a row)
Running(rows, z) ==
    SumOver([i \in 1..Len(rows) |-> rows[i][2]], {i \in 1..Len(rows) : rows[i][1] = z})

\* C2: for every year and every zone_id of the written table, population_sum
\* is the sum of the population raster over exactly the pixels of that zone
\* whose urban-mask value is 1; pixels of any other mask value add nothing.
C2_PopulationSum ==
    \A yr \in YearSet :
        Written(yr) =>
            \A z \in TableIndex(Table(yr)) :
                /\ z \in DOMAIN Table(yr).BSPOP
                /\ Table(yr).BSPOP[z] = SumOver(pop_band[yr], UrbanPixels(yr, z))

\* C3: for every year and every zone_id of the written table, urban_pixel_count
\* is the number of pixels of that zone whose urban-mask value is exactly 1,
\* summed over all tiles of the sweep.
C3_UrbanPixelCount ==
    \A yr \in YearSet :
        Written(yr) =>
            \A z \in TableIndex(Table(yr)) :
                /\ z \in DOMAIN Table(yr).BSCNT
                /\ Table(yr).BSCNT[z] = Cardinality(UrbanPixels(yr, z))

\* a written table with a zone whose urban pixels were counted in two different
\* tiles, next to a pixel of the same raster whose mask value is neither 0 nor 1
C3_Witness ==
    /\ JustWritten
    /\ \E p \in Pixels : urban_band[LastYear][p] \notin {0, 1}
    /\ \E z \in DOMAIN Table(LastYear).BSCNT :
          /\ Table(LastYear).BSCNT[z] >= 2
          /\ \E i, j \in 1..Len(tiles) :
                /\ i # j
                /\ TileWindow(tiles[i]) \cap UrbanPixels(LastYear, z) # {}
                /\ TileWindow(tiles[j]) \cap UrbanPixels(LastYear, z) # {}

\* the tables the year's rasters give when the whole raster is one tile
SingleTileTables(yr) ==
    {FinalTable(r.list_df, r.stats) : r \in TileResults(yr, Pixels)}

\* C4: the final per-year table does not depend on the block size: it is the
\* table that processing the whole raster as a single tile gives, also for
\* rasters that contain nodata pixels.
C4_BlockSizeInvariance ==
    \A yr \in YearSet : Written(yr) => Table(yr) \in SingleTileTables(yr)

\* C5: a pixel whose admin-zone code is the admin raster's nodata sentinel is
\* excluded from both pipelines: the sentinel is no zone_id of the final table,
\* and every zone's population_sum and urban_pixel_count are those of the
\* zone's own pixels alone, wherever the sentinel lies among the zone codes.
C5_NodataExcluded ==
    \A yr \in YearSet :
        Written(yr) =>
            /\ adm_nd \notin TableIndex(Table(yr))
            /\ \A z \in DOMAIN Table(yr).BSPOP :
                  Table(yr).BSPOP[z] = SumOver(PopData(yr, Pixels), ZonePixels(z))
            /\ \A z \in DOMAIN Table(yr).BSCNT :
                  Table(yr).BSCNT[z] = Cardinality(UrbanPixels(yr, z))

\* C6: no row of the final table holds a null: a zone_id the urban-count
\* pipeline emitted and the population-sum pipeline never did has
\* population_sum 0, and a zone_id only the population-sum pipeline emitted
\* has urban_pixel_count 0.
C6_NoNulls ==
    JustWritten =>
        \A z \in TableIndex(Table(LastYear)) :
            /\ z \in DOMAIN Table(LastYear).BSPOP
            /\ z \in DOMAIN Table(LastYear).BSCNT
            /\ z \notin Gids(list_df) => Table(LastYear).BSPOP[z] = 0
            /\ z \notin Gids(stats) => Table(LastYear).BSCNT[z] = 0

\* C7: zone_id 0 is no row of a written table, whatever the rasters hold.
C7_NoZoneZero ==
    \A yr \in YearSet : Written(yr) => 0 \notin TableIndex(Table(yr))

\* a table written after the urban-count pipeline emitted zone 0, zone 0 not
\* being the nodata sentinel
C7_Witness ==
    /\ JustWritten
    /\ adm_nd # 0
    /\ 0 \in Gids(stats)
    /\ TableIndex(Table(LastYear)) # {}

\* the tile ProcessTile is about to read
NextWindow == Window(x, y, TileCols(x), TileRows(y))

AllNodataTile == \A p \in NextWindow : adm_band[p] = adm_nd

NoUrbanTile == \A p \in NextWindow : urban_band[year][p] # 1

\* C8: processing a degenerate tile (every admin code the nodata sentinel, or
\* no pixel of urban mask 1) raises no error and contributes nothing: no zone's
\* running population_sum or urban_pixel_count changes, and an all-nodata tile
\* adds no zone_id (no placeholder bin value) to either running list.
C8_DegenerateTileNoOp ==
    [][(pc = "sweep" /\ (AllNodataTile \/ NoUrbanTile) /\ pc' # "TypeError") =>
          /\ pc' # "ValueError"
          /\ \A z \in Gids(list_df') \cup Gids(stats') :
                /\ Running(list_df', z) = Running(list_df, z)
                /\ Running(stats', z) = Running(stats, z)
          /\ AllNodataTile =>
                /\ Gids(list_df') = Gids(list_df)
                /\ Gids(stats') = Gids(stats)]_vars

-----------------------------------------------------------------------------
(* The 4x4 scenario: zones [[1,1,2,2],[1,1,2,2],[3,3,0,0],[3,3,0,0]], urban   *)
(* mask 1 except one row of 0 ("row 3", counted from 0 or from 1), population *)
(* 10 everywhere; no pixel holds a nodata value; any block size.              *)

ScenarioMaxBlock == 4

ScenarioZones == <<<<1, 1, 2, 2>>, <<1, 1, 2, 2>>, <<3, 3, 0, 0>>, <<3, 3, 0, 0>>>>

InitScenario ==
    /\ num_cols = 4
    /\ num_rows = 4
    /\ pop_block_xsize \in 1..ScenarioMaxBlock
    /\ pop_block_ysize \in 1..ScenarioMaxBlock
    /\ adm_nd \in {None, 255}
    /\ pop_nd \in {None, 0}
    /\ adm_band = [p \in Pixels |-> ScenarioZones[p[2] + 1][p[1] + 1]]
    /\ \E zero_row \in {2, 3} :
          urban_band = [yr \in YearSet |-> [p \in Pixels |-> IF p[2] = zero_row THEN 0 ELSE 1]]
    /\ pop_band = [yr \in YearSet |-> [p \in Pixels |-> 10]]
    /\ InitControl

SpecScenario == InitScenario /\ [][Next]_vars

\* C9 as stated: the table of the scenario is zone 1 with population_sum 40 and
\* urban_pixel_count 4, zone 2 with 40 and 4, zone 3 with 0 and 0, no zone 0.
C9_ScenarioAsStated ==
    \A yr \in YearSet :
        Written(yr) =>
            Table(yr) = [BSPOP |-> (1 :> 40 @@ 2 :> 40 @@ 3 :> 0),
                         BSCNT |-> (1 :> 4 @@ 2 :> 4 @@ 3 :> 0)]

\* C9 amended: the table of the scenario is zone 1 with population_sum 40 and
\* urban_pixel_count 4, zone 2 with 40 and 4, zone 3 with 20 and 2 (two of its
\* four pixels lie outside the zero row of the mask), and no row for zone 0.
C9_ScenarioTable ==
    \A yr \in YearSet :
        Written(yr) =>
            Table(yr) = [BSPOP |-> (1 :> 40 @@ 2 :> 40 @@ 3 :> 20),
                         BSCNT |-> (1 :> 4 @@ 2 :> 4 @@ 3 :> 2)]

\* the scenario's table written after a sweep in 2x2 blocks
C9_Witness ==
    /\ JustWritten
    /\ pop_block_xsize = 2
    /\ pop_block_ysize = 2
    /\ Len(tiles) = 4
    /\ 3 \in DOMAIN Table(LastYear).BSPOP

-----------------------------------------------------------------------------
(* The year loop: rasters of one row whose urban mask and population differ   *)
(* from year to year, with raster opens and window reads that may fail.       *)

YearsMaxCols == 2

InitYears ==
    /\ num_cols \in 1..YearsMaxCols
    /\ num_rows = 1
    /\ pop_block_xsize \in 1..YearsMaxCols
    /\ pop_block_ysize = 1
    /\ adm_nd \in {None, 2}
    /\ pop_nd = None
    /\ adm_band \in [Pixels -> {1, 2}]
    /\ urban_band \in [YearSet -> [Pixels -> {0, 1}]]
    /\ pop_band = [yr \in YearSet |-> [p \in Pixels |-> yr - 1999]]
    /\ InitControl

SpecYears == InitYears /\ [][Next]_vars

\* the tiles read so far cover the raster: the sweep is complete
SweepComplete == \A p \in Pixels : \E i \in 1..Len(tiles) : p \in TileWindow(tiles[i])

\* C10: along the years 2000, 2012, 2014 each year's lists start empty, a
\* year's table is written only when every tile of that year's sweep has been
\* merged, and a written table is never changed again: not by a later year's
\* sweep, and not when a later year fails on a raster open or a window read.
C10_YearTables ==
    [][/\ \A fn \in DOMAIN csv : fn \in DOMAIN csv' /\ csv'[fn] = csv[fn]
       /\ csv' # csv =>
             /\ pc = "write"
             /\ SweepComplete
             /\ DOMAIN csv' = DOMAIN csv \cup {out_fn(year)}
             /\ csv'[out_fn(year)] = FinalTable(list_df, stats)
       /\ (pc = "open" /\ pc' = "sweep") => (list_df' = << >> /\ stats' = << >>)
       /\ (pc = "sweep" /\ tiles = << >> /\ pc' \in {"sweep", "write"}) =>
             list_df' \in {r.list_df : r \in TileResults(year, NextWindow)}]_vars

\* the last year failed on a window read after the tables of 2000 and 2012,
\* which differ, were written
C10_Witness ==
    /\ pc = "TypeError"
    /\ yi = 3
    /\ DOMAIN csv = {2000, 2012}
    /\ csv[2000] # csv[2012]
    /\ DOMAIN csv[2000].BSPOP # {}

====
